---------------------------- MODULE Spec2Model ----------------------------
(***************************************************************************)
(* The library synchronizer of wavepipe: fsFileSource.MediaScan and        *)
(* fsFileSource.OrphanScan (package core), run against a small filesystem  *)
(* tree and a record store holding Folder, Art, Artist, Album and Song     *)
(* rows.  MediaScan advances one store call at a time; one pass of an      *)
(* OrphanScan loop body and one step of the cancel listener goroutine are  *)
(* one action each.                                                        *)
(***************************************************************************)
EXTENDS Integers, Sequences, FiniteSets, TLC

(***************************************************************************)
(* Bounds of the model.                                                    *)
(***************************************************************************)
\* largest modification time (unix seconds) a file can carry
MaxTime == 2
\* scan invocations (MediaScan or OrphanScan) in one behaviour
MaxScans == 2
\* filesystem changes made between scans in one behaviour
MaxEdits == 1
\* upsets in one behaviour: store calls that fail with an error other than
\* sql.ErrNoRows, and cancel signals
MaxUpsets == 1
\* entries (directories and files, the root included) of the trees that two
\* calls running side by side scan
MaxEntries == 4

(***************************************************************************)
(* Paths.  A path is the sequence of its elements; the names are fixed and *)
(* their extension and byte order are tabulated.                           *)
(***************************************************************************)
Root == <<"m">>

Universe ==
    { <<"m">>,
      <<"m", "a">>, <<"m", "a", "1.mp3">>, <<"m", "a", "c.jpg">>, <<"m", "a", "f">>,
      <<"m", "c.jpg">>,
      <<"m", "s.mp3">> }

DirPaths == { <<"m">>, <<"m", "a">>, <<"m", "a", "f">> }
FilePaths == Universe \ DirPaths

\* path.Dir
Dir(p) == SubSeq(p, 1, Len(p) - 1)

\* path.Base
Base(p) == IF p = <<>> THEN "" ELSE p[Len(p)]

\* path.Ext: the suffix of the last element that starts at its last dot
Ext(p) ==
    CASE Base(p) \in {"1.mp3", "s.mp3"} -> ".mp3"
      [] Base(p) = "c.jpg" -> ".jpg"
      [] OTHER -> ""

\* byte order of the names, the order in which filepath.Walk lists a directory
NameRank(n) ==
    CASE n = "1.mp3" -> 1
      [] n = "a" -> 2
      [] n = "c.jpg" -> 3
      [] n = "f" -> 4
      [] n = "m" -> 5
      [] n = "s.mp3" -> 6
      [] OTHER -> 0

\* whether path p lies under (or is) path base
IsPrefix(base, p) == Len(base) <= Len(p) /\ SubSeq(p, 1, Len(base)) = base

mediaSet == {".flac", ".mp3", ".ogg"}
artSet == {".jpg", ".jpeg", ".png"}
\* data.FileTypeMap: the file type code of each known audio extension
FileTypeMap == [e \in mediaSet |-> CASE e = ".mp3" -> "MP3" [] e = ".flac" -> "FLAC" [] OTHER -> "OGG"]

\* what taglib reads from a readable audio file
Tags(p) ==
    IF p = <<"m", "s.mp3">> THEN [Artist |-> "X", Album |-> "P"]
    ELSE [Artist |-> "X", Album |-> "Q"]

(***************************************************************************)
(* The filesystem: each path of the universe is absent, a directory or a   *)
(* file with a size, a modification time and tags that taglib can read or  *)
(* not.                                                                    *)
(***************************************************************************)
NoFile == [kind |-> "none", size |-> 0, mtime |-> 0, readable |-> FALSE]
DirInfo == [kind |-> "dir", size |-> 0, mtime |-> 0, readable |-> FALSE]
FileInfo(sz, mt, rd) == [kind |-> "file", size |-> sz, mtime |-> mt, readable |-> rd]

\* ioutil.ReadDir: the entries of directory p
ReadDir(f, p) == {q \in Universe : Len(q) = Len(p) + 1 /\ Dir(q) = p /\ f[q] # NoFile}

\* a set of paths of one directory as a sequence in name order
RECURSIVE SortByName(_)
SortByName(S) ==
    IF S = {} THEN <<>>
    ELSE LET first == CHOOSE q \in S : \A r \in S : NameRank(Base(q)) <= NameRank(Base(r))
         IN <<first>> \o SortByName(S \ {first})

\* filepath.Walk: p, then the walk of each entry of p in name order
RECURSIVE Walk(_, _)
RECURSIVE WalkAll(_, _)
WalkAll(f, ps) == IF ps = <<>> THEN <<>> ELSE Walk(f, Head(ps)) \o WalkAll(f, Tail(ps))
Walk(f, p) ==
    IF f[p].kind = "dir" THEN <<p>> \o WalkAll(f, SortByName(ReadDir(f, p))) ELSE <<p>>

(***************************************************************************)
(* Errors.                                                                 *)
(***************************************************************************)
NoErr == "nil"
ErrNoRows == "sql: no rows in result set"
ErrStore == "store error"
ErrHalted == "media scan: halted by channel"
ErrInvalidPath == "media scan: invalid path"
ErrTag == "taglib: cannot read file"
ErrFileType == "fs: invalid file type"

(***************************************************************************)
(* The record store (package data).                                        *)
(***************************************************************************)
EmptyDB ==
    [ folders |-> {}, art |-> {}, artists |-> {}, albums |-> {}, songs |-> {},
      lastID |-> [folders |-> 0, art |-> 0, artists |-> 0, albums |-> 0, songs |-> 0] ]

NewFolder(path) == [ID |-> 0, Path |-> path, Title |-> "", ParentID |-> 0]
NewArt(path) == [ID |-> 0, FileName |-> path, FileSize |-> 0, LastModified |-> 0]
NewArtist(title) == [ID |-> 0, Title |-> title]
NewAlbum(artistID, title) == [ID |-> 0, ArtistID |-> artistID, Title |-> title]
NewSong(path) ==
    [ ID |-> 0, FileName |-> path, FolderID |-> 0, ArtistID |-> 0, AlbumID |-> 0,
      ArtID |-> 0, FileSize |-> 0, LastModified |-> 0 ]

\* the row of lowest ID among the matching rows
First(rows) == CHOOSE r \in rows : \A q \in rows : r.ID <= q.ID

\* Load: fills rec from the matching row, or fails with sql.ErrNoRows, or (fail)
\* fails with another error and leaves rec as it was
LoadRow(rows, rec, fail) ==
    IF fail THEN [err |-> ErrStore, rec |-> rec]
    ELSE IF rows = {} THEN [err |-> ErrNoRows, rec |-> rec]
    ELSE [err |-> NoErr, rec |-> First(rows)]

FolderLoad(d, rec, fail) == LoadRow({f \in d.folders : f.Path = rec.Path}, rec, fail)
ArtLoad(d, rec, fail) == LoadRow({a \in d.art : a.FileName = rec.FileName}, rec, fail)
ArtistLoad(d, rec, fail) == LoadRow({a \in d.artists : a.Title = rec.Title}, rec, fail)
AlbumLoad(d, rec, fail) ==
    LoadRow({a \in d.albums : a.ArtistID = rec.ArtistID /\ a.Title = rec.Title}, rec, fail)
SongLoad(d, rec, fail) == LoadRow({s \in d.songs : s.FileName = rec.FileName}, rec, fail)

\* Save: inserts rec under the next ID of its table
SaveRow(d, table, rec) ==
    LET id == d.lastID[table] + 1
    IN [ db |-> [d EXCEPT ![table] = @ \cup {[rec EXCEPT !.ID = id]}, !.lastID[table] = id],
         rec |-> [rec EXCEPT !.ID = id] ]

\* Update: writes every column of the row whose ID is rec.ID
SongUpdate(d, rec) ==
    [d EXCEPT !.songs = {IF s.ID = rec.ID THEN rec ELSE s : s \in @}]

\* SongsForFolder
SongsForFolder(d, folderID) == {s \in d.songs : s.FolderID = folderID}

\* ArtInPath, SongsInPath, FoldersInPath and their NotInPath counterparts
ArtInPath(d, path) == {a \in d.art : IsPrefix(path, a.FileName)}
ArtNotInPath(d, path) == d.art \ ArtInPath(d, path)
SongsInPath(d, path) == {x \in d.songs : IsPrefix(path, x.FileName)}
SongsNotInPath(d, path) == d.songs \ SongsInPath(d, path)
FoldersInPath(d, path) == {x \in d.folders : IsPrefix(path, x.Path)}
FoldersNotInPath(d, path) == d.folders \ FoldersInPath(d, path)

\* Delete: removes the row whose ID is rec.ID
DeleteRow(d, table, rec) == [d EXCEPT ![table] = {r \in @ : r.ID # rec.ID}]

\* PurgeOrphanAlbums: the albums no song belongs to
OrphanAlbums(d) == {a \in d.albums : ~\E x \in d.songs : x.AlbumID = a.ID}
\* PurgeOrphanArtists: the artists no album belongs to
OrphanArtists(d) == {a \in d.artists : ~\E x \in d.albums : x.ArtistID = a.ID}

\* rows in the order a query returns them
RECURSIVE ByID(_)
ByID(rows) == IF rows = {} THEN <<>> ELSE <<First(rows)>> \o ByID(rows \ {First(rows)})

(***************************************************************************)
(* MediaScan: the body of walkFunc and the deferred art pass, one store    *)
(* call at a time.  s holds the locals of one MediaScan call: the entries  *)
(* still to walk (todo), the store call about to be made (at: "enter"      *)
(* between visits, "checked" once the halt check of the visit has passed), *)
(* the folder, song and record in hand, the songs of the                   *)
(* pair in hand, the three caches, artFiles and the counters.  d is the    *)
(* store, f the filesystem, fail whether the store call fails with an      *)
(* error other than sql.ErrNoRows.                                         *)
(***************************************************************************)
FaultPoints ==
    { "folder.Load", "pFolder.Load", "folder.Save", "art.Load", "art.Save",
      "artist.Load", "artist.Save", "album.Load", "album.Save",
      "song2.Load", "song.Save", "song.Update" }

LoadPoints ==
    {"folder.Load", "pFolder.Load", "art.Load", "artist.Load", "album.Load", "song2.Load"}
SavePoints == FaultPoints \ LoadPoints

EmptyMap == [x \in {} |-> 0]
Put(m, k, v) == [x \in (DOMAIN m) \cup {k} |-> IF x = k THEN v ELSE m[x]]

ZeroCounts ==
    [art |-> 0, artist |-> 0, album |-> 0, song |-> 0, songUpdate |-> 0, folder |-> 0]

\* the check of line 105 left out: every directory gets a Folder
NoItems_Never(files) == FALSE

\* line 105: the directory lists no items
NoItems(files) == files = {}

\* line 162: art of size 0 is refused
ArtEmpty(art) == art.FileSize = 0

\* the check of line 208 left out: songs of size 0 are saved
SongEmpty_Never(song) == FALSE

\* line 208: a song of size 0 is refused
SongEmpty(song) == song.FileSize = 0

\* lines 298-299: walkFunc returns nil and filepath.Walk goes on
EndVisit(s) ==
    [s EXCEPT !.todo = Tail(@), !.at = "enter", !.folder = NewFolder(<<>>),
              !.song = NewSong(<<>>), !.rec = NewArtist("")]

\* lines 302-305: walkFunc returns an error, the walk stops, MediaScan returns
\* 0 and the error without running the art pass
FailVisit(s, e) == [EndVisit(s) EXCEPT !.todo = s.todo, !.pc = "returned", !.err = e]

\* lines 244-250 and 266-271: the album comes from the cache or is to be loaded
ToAlbum(s) ==
    LET albumCacheKey == <<s.song.ArtistID, Tags(Head(s.todo)).Album>>
    IN  IF albumCacheKey \in DOMAIN s.albumCache
        THEN [s EXCEPT !.song.AlbumID = s.albumCache[albumCacheKey].ID, !.at = "song2.Load"]
        ELSE [s EXCEPT !.at = "album.Load"]

\* lines 238-242 and 270: the artist loaded or saved (or left without ID by a
\* failed call) is cached
GotArtist(s, artist) ==
    ToAlbum([s EXCEPT !.artistCache = Put(@, Tags(Head(s.todo)).Artist, artist),
                      !.song.ArtistID = artist.ID])

\* lines 266-271: the album loaded or saved (or left without ID by a failed
\* call) is cached
GotAlbum(s, album) ==
    [s EXCEPT !.albumCache = Put(@, <<s.song.ArtistID, Tags(Head(s.todo)).Album>>, album),
              !.song.AlbumID = album.ID,
              !.at = "song2.Load"]

\* lines 223-230: the artist comes from the cache or is to be loaded
ToArtist(s) ==
    LET title == Tags(Head(s.todo)).Artist
    IN  IF title \in DOMAIN s.artistCache
        THEN ToAlbum([s EXCEPT !.song.ArtistID = s.artistCache[title].ID])
        ELSE [s EXCEPT !.at = "artist.Load"]

\* lines 140-222: the folder is known and cached; an art file is to be loaded,
\* an audio file has its tags read, anything else ends the visit
GotFolder(s, f, folder) ==
    LET p == Head(s.todo)
        s1 == [s EXCEPT !.folder = folder, !.folderCache = Put(@, folder.Path, folder)]
        song == [NewSong(p) EXCEPT !.FileSize = f[p].size,
                                   !.LastModified = f[p].mtime,
                                   !.FolderID = folder.ID]
    IN  IF Ext(p) \notin mediaSet /\ Ext(p) \notin artSet THEN EndVisit(s1)
        ELSE IF Ext(p) \in artSet THEN [s1 EXCEPT !.at = "art.Load"]
        ELSE IF ~f[p].readable THEN FailVisit(s1, ErrTag)
        ELSE IF SongEmpty(song) THEN EndVisit(s1)
        ELSE IF Ext(p) \notin DOMAIN FileTypeMap THEN FailVisit(s1, ErrFileType)
        ELSE ToArtist([s1 EXCEPT !.song = song])

\* lines 78-96: walkFunc after its halt check: the path is checked and its
\* folder is looked up in the cache
EnterVisit(s, f) ==
    LET p == Head(s.todo)
        path == IF f[p].kind = "dir" THEN p ELSE Dir(p)
    IN  IF f[p] = NoFile THEN FailVisit(s, ErrInvalidPath)
        ELSE IF path \in DOMAIN s.folderCache THEN GotFolder(s, f, s.folderCache[path])
        ELSE [s EXCEPT !.folder = NewFolder(path), !.at = "folder.Load"]

\* the existing song ignored: every song is saved
SongLoaded_AlwaysSaves(s, ld) == [s EXCEPT !.at = "song.Save"]

\* lines 278-296: the song is to be saved, to be updated in place, or left
\* alone (a Load that failed leaves song2 without a modified time)
SongLoaded(s, ld) ==
    IF ld.err = ErrNoRows THEN [s EXCEPT !.at = "song.Save"]
    ELSE IF s.song.LastModified > ld.rec.LastModified
    THEN [s EXCEPT !.song.ID = ld.rec.ID, !.at = "song.Update"]
    ELSE EndVisit(s)

\* the Load that walkFunc makes at s.at, from store d, and where it goes next
Loaded(s, d, f, fail) ==
    LET p == Head(s.todo)
    IN  CASE s.at = "folder.Load" ->
               LET ld == FolderLoad(d, s.folder, fail)
               IN  IF ld.err # ErrNoRows THEN GotFolder(s, f, ld.rec)
                   ELSE IF NoItems(ReadDir(f, s.folder.Path)) THEN EndVisit(s)
                   ELSE [s EXCEPT !.at = "pFolder.Load"]
          [] s.at = "pFolder.Load" ->
               LET pFolder == NewFolder(IF f[p].kind = "dir" THEN Dir(p) ELSE Dir(Dir(p)))
                   pl == FolderLoad(d, pFolder, fail)
               IN  IF pl.err \notin {NoErr, ErrNoRows} THEN FailVisit(s, pl.err)
                   ELSE [s EXCEPT !.folder.Title = Base(s.folder.Path),
                                  !.folder.ParentID = pl.rec.ID,
                                  !.at = "folder.Save"]
          [] s.at = "art.Load" ->
               LET ld == ArtLoad(d, NewArt(p), fail)
                   art == [ld.rec EXCEPT !.FileSize = f[p].size, !.LastModified = f[p].mtime]
               IN  IF ld.err # ErrNoRows THEN EndVisit(s)
                   ELSE IF ArtEmpty(art) THEN EndVisit(s)
                   ELSE [s EXCEPT !.rec = art, !.at = "art.Save"]
          [] s.at = "artist.Load" ->
               LET ld == ArtistLoad(d, NewArtist(Tags(p).Artist), fail)
               IN  IF ld.err # ErrNoRows THEN GotArtist(s, ld.rec)
                   ELSE [s EXCEPT !.rec = ld.rec, !.at = "artist.Save"]
          [] s.at = "album.Load" ->
               LET ld == AlbumLoad(d, NewAlbum(s.song.ArtistID, Tags(p).Album), fail)
               IN  IF ld.err # ErrNoRows THEN GotAlbum(s, ld.rec)
                   ELSE [s EXCEPT !.rec = ld.rec, !.at = "album.Save"]
          [] OTHER -> SongLoaded(s, SongLoad(d, NewSong(p), fail))

\* the Save (or Update) that walkFunc makes at s.at, into store d, and where
\* it goes next: a failed folder Save is returned, the other failures are
\* logged and the walk goes on
Saved(s, d, f, fail) ==
    CASE s.at = "folder.Save" ->
           LET sv == SaveRow(d, "folders", s.folder)
           IN  IF fail THEN [db |-> d, s |-> FailVisit(s, ErrStore)]
               ELSE [db |-> sv.db,
                     s |-> GotFolder([s EXCEPT !.cnt.folder = @ + 1], f, sv.rec)]
      [] s.at = "art.Save" ->
           LET sv == SaveRow(d, "art", s.rec)
               pair == [folderID |-> s.folder.ID, artID |-> sv.rec.ID]
           IN  IF fail THEN [db |-> d, s |-> EndVisit(s)]
               ELSE [db |-> sv.db,
                     s |-> EndVisit([s EXCEPT !.cnt.art = @ + 1,
                                              !.artFiles = Append(@, pair)])]
      [] s.at = "artist.Save" ->
           LET sv == SaveRow(d, "artists", s.rec)
           IN  IF fail THEN [db |-> d, s |-> GotArtist(s, s.rec)]
               ELSE [db |-> sv.db, s |-> GotArtist([s EXCEPT !.cnt.artist = @ + 1], sv.rec)]
      [] s.at = "album.Save" ->
           LET sv == SaveRow(d, "albums", s.rec)
           IN  IF fail THEN [db |-> d, s |-> GotAlbum(s, s.rec)]
               ELSE [db |-> sv.db, s |-> GotAlbum([s EXCEPT !.cnt.album = @ + 1], sv.rec)]
      [] s.at = "song.Save" ->
           LET sv == SaveRow(d, "songs", s.song)
           IN  IF fail THEN [db |-> d, s |-> EndVisit(s)]
               ELSE [db |-> sv.db, s |-> EndVisit([s EXCEPT !.cnt.song = @ + 1])]
      [] OTHER ->
           [db |-> IF fail THEN d ELSE SongUpdate(d, s.song),
            s |-> EndVisit([s EXCEPT !.cnt.songUpdate = @ + 1])]

\* lines 308-313: SongsForFolder for the first pair of artFiles; a pair whose
\* folder has no song is done
PairLoaded(s, d, fail) ==
    LET songs == ByID(SongsForFolder(d, Head(s.artFiles).folderID))
    IN  IF fail THEN [s EXCEPT !.pc = "returned", !.err = ErrStore]
        ELSE IF songs = <<>> THEN [s EXCEPT !.artFiles = Tail(@)]
        ELSE [s EXCEPT !.songs = songs, !.at = "s.Update"]

\* lines 316-320: the next song of the pair, as SongsForFolder returned it, is
\* written back with the art ID of the pair
SongUpdated(s, d, fail) ==
    LET song == [Head(s.songs) EXCEPT !.ArtID = Head(s.artFiles).artID]
        last == Tail(s.songs) = <<>>
    IN  IF fail THEN [db |-> d, s |-> [s EXCEPT !.pc = "returned", !.err = ErrStore]]
        ELSE [db |-> SongUpdate(d, song),
              s |-> [s EXCEPT !.songs = Tail(@),
                              !.at = IF last THEN "enter" ELSE "s.Update",
                              !.artFiles = IF last THEN Tail(@) ELSE @]]

(***************************************************************************)
(* State.                                                                  *)
(***************************************************************************)
VARIABLES
    fs,             \* the filesystem: path -> NoFile, DirInfo or FileInfo
    db,             \* the record store
    pc,             \* "idle", "walk", "assoc", "returned"
    todo,           \* the entries filepath.Walk has still to visit, in order
    folderCache,    \* MediaScan's folderCache: path -> Folder
    artistCache,    \* MediaScan's artistCache: title -> Artist
    albumCache,     \* MediaScan's albumCache: <<artist ID, title>> -> Album
    artFiles,       \* MediaScan's artFiles: folder/art ID pairs of the new art
    cnt,            \* MediaScan's counters
    visit,          \* MediaScan between store calls: the call about to be made (at),
                    \* the folder, song and record in hand, the songs of the pair
    listener,       \* the cancel goroutine: "waiting", "received", "done"
    haltWalk,       \* MediaScan's haltWalk flag
    rlocks,         \* read locks of mutex the scanning goroutine holds
    visitsAfterCancel, \* entries visited since the cancel signal was received (up to 2)
    orphan,         \* OrphanScan's arguments, counters and position
    haltOrphanScan, \* OrphanScan's haltOrphanScan flag
    ret,            \* what the last call returned: [op, count, err]
    pre,            \* the store and history when the running call began
    delta,          \* filesystem changes since a MediaScan last returned nil
    faults,         \* store calls that have failed so far
    upsetsLeft,     \* store failures and cancel signals still to come
    scansLeft,      \* scans still to be begun
    editsLeft,      \* filesystem changes still to be made
    scanners        \* two MediaScan calls running side by side: each one's locals

vars == << fs, db, pc, todo, folderCache, artistCache, albumCache, artFiles, cnt, visit,
           listener, haltWalk, rlocks, visitsAfterCancel, orphan, haltOrphanScan, ret, pre, delta, faults,
           upsetsLeft, scansLeft, editsLeft, scanners >>

mediaVars == << todo, folderCache, artistCache, albumCache, artFiles, cnt, visit >>
haltVars == << listener, haltWalk, haltOrphanScan, rlocks, visitsAfterCancel >>

\* MediaScan between two visits: no store call pending, nothing in hand
NoVisit ==
    [ at |-> "enter", folder |-> NewFolder(<<>>), song |-> NewSong(<<>>),
      rec |-> NewArtist(""), songs |-> <<>> ]

\* the two MediaScan calls of the side-by-side specification
Scanners == {1, 2}

\* the locals of a MediaScan call that has not begun: where it is (pc), the
\* error it returned, whether no other call was running when it began, the
\* entries still to walk, the store call walkFunc is about to make (at), the
\* folder, song and record in hand, the caches, the art pairs and the counters
IdleScanner ==
    [ pc |-> "idle", err |-> NoErr, alone |-> TRUE, todo |-> <<>>, at |-> "enter",
      folder |-> NewFolder(<<>>), song |-> NewSong(<<>>), rec |-> NewArtist(""),
      songs |-> <<>>,
      folderCache |-> EmptyMap, artistCache |-> EmptyMap, albumCache |-> EmptyMap,
      artFiles |-> <<>>, cnt |-> ZeroCounts ]

\* lines 31-70: the locals of a MediaScan call of tree f that has just begun
Begun(f) ==
    [IdleScanner EXCEPT !.pc = "walk",
                        !.todo = IF f[Root] = NoFile THEN <<Root>> ELSE Walk(f, Root)]

NoOrphan ==
    [ baseFolder |-> <<>>, subFolder |-> <<>>, phase |-> "none", cands |-> <<>>,
      artCount |-> 0, folderCount |-> 0, songCount |-> 0, albumCount |-> 0 ]

Unknown == << [kind |-> "unknown", path |-> <<>>] >>

\* no call was made before: pre.last holds the result of the call before the
\* running one, the store that call started from, and whether the tree was
\* left alone since it returned (pc "returned") or not ("idle")
NoCall == [ret |-> [op |-> "none", count |-> 0, err |-> NoErr], db |-> EmptyDB, pc |-> "idle"]

\* a file of the initial tree: absent, whole, empty or (audio) unreadable by
\* taglib; the files of the subdirectory are absent or whole
InitFiles(p) ==
    IF Len(p) > 2 THEN {NoFile, FileInfo(1, 1, Ext(p) \in mediaSet)}
    ELSE IF Ext(p) \in mediaSet
    THEN {NoFile, FileInfo(1, 1, TRUE), FileInfo(0, 1, TRUE), FileInfo(1, 1, FALSE)}
    ELSE {NoFile, FileInfo(1, 1, FALSE), FileInfo(0, 1, FALSE)}

\* a tree: every entry's directory exists (the initial trees have the empty
\* directory f only in a directory without files)
WellFormed(f) == \A p \in Universe \ {Root} : f[p] # NoFile => f[Dir(p)].kind = "dir"

InitTrees ==
    { f \in [Universe -> {NoFile, DirInfo} \cup UNION {InitFiles(p) : p \in FilePaths}] :
        /\ \A p \in DirPaths : f[p] \in {NoFile, DirInfo}
        /\ \A p \in FilePaths : f[p] \in InitFiles(p)
        /\ f[<<"m", "a", "f">>] # NoFile => ReadDir(f, <<"m", "a">>) = {<<"m", "a", "f">>}
        /\ WellFormed(f) }

Init ==
    /\ fs \in InitTrees
    /\ db = EmptyDB
    /\ pc = "idle"
    /\ todo = <<>>
    /\ folderCache = EmptyMap
    /\ artistCache = EmptyMap
    /\ albumCache = EmptyMap
    /\ artFiles = <<>>
    /\ cnt = ZeroCounts
    /\ visit = NoVisit
    /\ listener = "waiting"
    /\ haltWalk = FALSE
    /\ rlocks = 0
    /\ visitsAfterCancel = 0
    /\ orphan = NoOrphan
    /\ haltOrphanScan = FALSE
    /\ ret = [op |-> "none", count |-> 0, err |-> NoErr]
    /\ pre = [db |-> EmptyDB, delta |-> Unknown, faults |-> 0, last |-> NoCall]
    /\ delta = Unknown
    /\ faults = 0
    /\ upsetsLeft = MaxUpsets
    /\ scansLeft = MaxScans
    /\ editsLeft = MaxEdits
    /\ scanners = [i \in Scanners |-> IdleScanner]

(***************************************************************************)
(* MediaScan.                                                              *)
(***************************************************************************)
\* lines 31-70: the listener is started, the locals are set up, the walk begins
StartMediaScan ==
    /\ pc \in {"idle", "returned"}
    /\ scansLeft > 0
    /\ scansLeft' = scansLeft - 1
    /\ pc' = "walk"
    /\ todo' = IF fs[Root] = NoFile THEN <<Root>> ELSE Walk(fs, Root)
    /\ folderCache' = EmptyMap
    /\ artistCache' = EmptyMap
    /\ albumCache' = EmptyMap
    /\ artFiles' = <<>>
    /\ cnt' = ZeroCounts
    /\ visit' = NoVisit
    /\ listener' = "waiting"
    /\ haltWalk' = FALSE
    /\ rlocks' = 0
    /\ visitsAfterCancel' = 0
    /\ pre' = [db |-> db, delta |-> delta, faults |-> faults,
               last |-> [ret |-> ret, db |-> pre.db, pc |-> pc]]
    /\ UNCHANGED << scanners, fs, db, orphan, haltOrphanScan, ret, delta, faults, upsetsLeft, editsLeft >>

\* MediaScan returns (count, err)
MediaReturns(count, err) ==
    /\ pc' = "returned"
    /\ ret' = [op |-> "media", count |-> count, err |-> err]
    /\ delta' = IF err = NoErr THEN <<>> ELSE Unknown

\* the error returned with the changes counted so far instead of 0
MediaFails_KeepsCount(err) ==
    MediaReturns(cnt.art + cnt.artist + cnt.album + cnt.song + cnt.folder + cnt.songUpdate, err)

\* lines 303-305, 311-313, 318-320: MediaScan returns 0 and the error
MediaFails(err) == MediaReturns(0, err)

\* the locals of the running MediaScan call
Locals ==
    [ pc |-> pc, err |-> NoErr, todo |-> todo, at |-> visit.at, folder |-> visit.folder,
      song |-> visit.song, rec |-> visit.rec, songs |-> visit.songs,
      folderCache |-> folderCache, artistCache |-> artistCache, albumCache |-> albumCache,
      artFiles |-> artFiles, cnt |-> cnt ]

\* the locals of the running call become s; the call returns if s says so
Becomes(s) ==
    /\ todo' = s.todo
    /\ folderCache' = s.folderCache
    /\ artistCache' = s.artistCache
    /\ albumCache' = s.albumCache
    /\ artFiles' = s.artFiles
    /\ cnt' = s.cnt
    /\ visit' = [at |-> s.at, folder |-> s.folder, song |-> s.song, rec |-> s.rec,
                 songs |-> s.songs]
    /\ IF s.pc = "returned" THEN MediaFails(s.err) ELSE UNCHANGED << pc, ret, delta >>

\* whether the store call about to be made fails: a failure uses up an upset
StoreCall(fail) ==
    /\ fail => upsetsLeft > 0
    /\ faults' = IF fail THEN faults + 1 ELSE faults
    /\ upsetsLeft' = IF fail THEN upsetsLeft - 1 ELSE upsetsLeft

\* the flag not consulted: the walk goes on
HaltCheck_Never(flag) == FALSE

\* lines 72-76: walkFunc reads the flag under the read lock
HaltCheck(flag) == flag

\* the halt undoing what the walk has stored
Halt_RollsBack ==
    /\ rlocks' = rlocks + 1
    /\ MediaFails(ErrHalted)
    /\ db' = pre.db
    /\ UNCHANGED << mediaVars, faults, upsetsLeft, visitsAfterCancel >>

\* lines 73-75 and 302-305: walkFunc returns the halted error with the read
\* lock held, and MediaScan returns it
Halt ==
    /\ rlocks' = rlocks + 1
    /\ MediaFails(ErrHalted)
    /\ UNCHANGED << db, mediaVars, faults, upsetsLeft, visitsAfterCancel >>

\* lines 70-76: filepath.Walk calls walkFunc on the next entry, which reads the
\* flag under the read lock; the lock is released when the flag is not set
WalkStep ==
    /\ pc = "walk" /\ visit.at = "enter"
    /\ todo # <<>>
    /\ IF HaltCheck(haltWalk)
       THEN Halt
       ELSE /\ visit' = [visit EXCEPT !.at = "checked"]
            /\ rlocks' = rlocks
            /\ visitsAfterCancel' = IF listener = "waiting" THEN 0
                                     ELSE IF visitsAfterCancel < 2 THEN visitsAfterCancel + 1
                                     ELSE visitsAfterCancel
            /\ UNCHANGED << db, todo, folderCache, artistCache, albumCache, artFiles, cnt,
                            pc, ret, delta, faults, upsetsLeft >>
    /\ UNCHANGED << scanners, fs, listener, haltWalk, orphan, haltOrphanScan, pre, scansLeft, editsLeft >>

\* lines 78-222: walkFunc goes on after the halt check: the path check, the
\* folder cache lookup and, on a cache hit, the dispatch on the extension and
\* the tag read, up to the next store call or the return
WalkEnter ==
    /\ pc = "walk" /\ visit.at = "checked"
    /\ Becomes(EnterVisit(Locals, fs))
    /\ UNCHANGED << scanners, fs, db, haltVars, orphan, pre, faults, upsetsLeft, scansLeft, editsLeft >>

\* lines 96-278: one Load of walkFunc
WalkLoad ==
    /\ pc = "walk" /\ visit.at \in LoadPoints
    /\ \E fail \in BOOLEAN :
          /\ StoreCall(fail)
          /\ Becomes(Loaded(Locals, db, fs, fail))
    /\ UNCHANGED << scanners, fs, db, haltVars, orphan, pre, scansLeft, editsLeft >>

\* lines 130-290: one Save or Update of walkFunc
WalkSave ==
    /\ pc = "walk" /\ visit.at \in SavePoints
    /\ \E fail \in BOOLEAN :
          /\ StoreCall(fail)
          /\ LET r == Saved(Locals, db, fs, fail)
             IN  db' = r.db /\ Becomes(r.s)
    /\ UNCHANGED << scanners, fs, haltVars, orphan, pre, scansLeft, editsLeft >>

\* lines 302-305: the walk ended without an error
WalkEnd ==
    /\ pc = "walk" /\ visit.at = "enter"
    /\ todo = <<>>
    /\ pc' = "assoc"
    /\ UNCHANGED << scanners, fs, db, mediaVars, haltVars, orphan, ret, pre, delta, faults, upsetsLeft,
                    scansLeft, editsLeft >>

\* lines 308-313: SongsForFolder for the next folder/art pair of artFiles
AssocLoad ==
    /\ pc = "assoc" /\ visit.at = "enter"
    /\ artFiles # <<>>
    /\ \E fail \in BOOLEAN :
          /\ StoreCall(fail)
          /\ Becomes(PairLoaded(Locals, db, fail))
    /\ UNCHANGED << scanners, fs, db, haltVars, orphan, pre, scansLeft, editsLeft >>

\* lines 316-320: the Update of the next song of the pair
AssocUpdate ==
    /\ pc = "assoc" /\ visit.at = "s.Update"
    /\ \E fail \in BOOLEAN :
          /\ StoreCall(fail)
          /\ LET r == SongUpdated(Locals, db, fail)
             IN  db' = r.db /\ Becomes(r.s)
    /\ UNCHANGED << scanners, fs, haltVars, orphan, pre, scansLeft, editsLeft >>

\* lines 332-336: the sum of the counters is returned
MediaScanDone ==
    /\ pc = "assoc" /\ visit.at = "enter"
    /\ artFiles = <<>>
    /\ MediaReturns(cnt.art + cnt.artist + cnt.album + cnt.song + cnt.folder + cnt.songUpdate,
                    NoErr)
    /\ UNCHANGED << scanners, fs, db, mediaVars, haltVars, orphan, pre, faults, upsetsLeft, scansLeft, editsLeft >>

(***************************************************************************)
(* OrphanScan.  orphan.phase names the loop being run and orphan.cands the *)
(* rows it has still to look at.                                           *)
(***************************************************************************)
\* the arguments of the calls made: a base folder alone, a subfolder alone, none
OrphanArgs ==
    { [baseFolder |-> b, subFolder |-> <<>>] : b \in {<<>>, Root, <<"m", "a">>} }
      \cup { [baseFolder |-> b, subFolder |-> <<"m", "a">>] : b \in {<<>>, Root} }

\* lines 340-358: the listener is started and the counters are set up
StartOrphanScan ==
    /\ pc \in {"idle", "returned"}
    /\ scansLeft > 0
    /\ scansLeft' = scansLeft - 1
    /\ pc' = "orphan"
    /\ \E args \in OrphanArgs :
          orphan' = [NoOrphan EXCEPT !.baseFolder = args.baseFolder,
                                     !.subFolder = args.subFolder,
                                     !.phase = "start"]
    /\ listener' = "waiting"
    /\ haltOrphanScan' = FALSE
    /\ visitsAfterCancel' = 0
    /\ pre' = [db |-> db, delta |-> delta, faults |-> faults,
               last |-> [ret |-> ret, db |-> pre.db, pc |-> pc]]
    /\ delta' = Unknown
    /\ UNCHANGED << scanners, fs, db, mediaVars, haltWalk, rlocks, ret, faults, upsetsLeft, editsLeft >>

\* OrphanScan returns (count, err)
OrphanReturns(count, err) ==
    /\ pc' = "returned"
    /\ ret' = [op |-> "orphan", count |-> count, err |-> err]

\* the folder loop moved behind the purge of the albums
NextPhase_FoldersLast(o, ph) ==
    CASE ph = "start" -> IF o.baseFolder # <<>> THEN "evictArt" ELSE "checkArt"
      [] ph = "evictArt" -> "evictSongs"
      [] ph = "evictSongs" -> "evictFolders"
      [] ph = "evictFolders" -> "checkArt"
      [] ph = "checkArt" -> "checkSongs"
      [] ph = "checkSongs" -> "purgeAlbums"
      [] ph = "purgeAlbums" -> "checkFolders"
      [] OTHER -> "sum"

\* the loop that follows the loop (or the purge) named ph
NextPhase(o, ph) ==
    CASE ph = "start" -> IF o.baseFolder # <<>> THEN "evictArt" ELSE "checkArt"
      [] ph = "evictArt" -> "evictSongs"
      [] ph = "evictSongs" -> "evictFolders"
      [] ph = "evictFolders" -> "checkArt"
      [] ph = "checkArt" -> "checkSongs"
      [] ph = "checkSongs" -> "checkFolders"
      [] ph = "checkFolders" -> "purgeAlbums"
      [] ph = "purgeAlbums" -> "purgeArtists"
      [] OTHER -> "sum"

\* lines 421-424: the folder whose files are checked for existence
SubFolder(o) == IF o.subFolder = <<>> THEN o.baseFolder ELSE o.subFolder

\* the rows the query at the head of loop ph returns
Query(d, o, ph) ==
    CASE ph = "evictArt" -> ByID(ArtNotInPath(d, o.baseFolder))
      [] ph = "evictSongs" -> ByID(SongsNotInPath(d, o.baseFolder))
      [] ph = "evictFolders" -> ByID(FoldersNotInPath(d, o.baseFolder))
      [] ph = "checkArt" -> ByID(ArtInPath(d, SubFolder(o)))
      [] ph = "checkSongs" -> ByID(SongsInPath(d, SubFolder(o)))
      [] ph = "checkFolders" -> ByID(FoldersInPath(d, SubFolder(o)))
      [] OTHER -> <<>>

\* the table loop ph deletes from and the counter it adds to
TableOf(ph) ==
    CASE ph \in {"evictArt", "checkArt"} -> "art"
      [] ph \in {"evictSongs", "checkSongs"} -> "songs"
      [] OTHER -> "folders"
CounterOf(ph) ==
    CASE ph \in {"evictArt", "checkArt"} -> "artCount"
      [] ph \in {"evictSongs", "checkSongs"} -> "songCount"
      [] OTHER -> "folderCount"

\* the eviction loops deleting only rows whose file is gone
Doomed_IfGone(f, ph, r) ==
    IF TableOf(ph) = "folders" THEN ReadDir(f, r.Path) = {} ELSE f[r.FileName] = NoFile

\* the folder loop deleting only the folders of directories that exist and
\* list nothing
Doomed_GoneDirKept(f, ph, r) ==
    CASE ph \in {"evictArt", "evictSongs", "evictFolders"} -> TRUE
      [] ph \in {"checkArt", "checkSongs"} -> f[r.FileName] = NoFile
      [] OTHER -> f[r.Path].kind = "dir" /\ ReadDir(f, r.Path) = {}

\* the verification loops deleting the rows whose file or listing is there
Doomed_IfPresent(f, ph, r) ==
    CASE ph \in {"evictArt", "evictSongs", "evictFolders"} -> TRUE
      [] ph \in {"checkArt", "checkSongs"} -> f[r.FileName] # NoFile
      [] OTHER -> ReadDir(f, r.Path) # {}

\* whether loop ph deletes row r: always when evicting, else when its file is
\* gone (os.Stat) or its directory is gone or lists no entry (ioutil.ReadDir)
Doomed(f, ph, r) ==
    CASE ph \in {"evictArt", "evictSongs", "evictFolders"} -> TRUE
      [] ph \in {"checkArt", "checkSongs"} -> f[r.FileName] = NoFile
      [] OTHER -> ReadDir(f, r.Path) = {}

\* lines 366-382, 384-400, 402-418, 432-451, 453-472, 474-498: the query of the
\* next loop, or one pass of the body of the running loop
OrphanLoop ==
    /\ pc = "orphan"
    /\ \E fail \in {FALSE} \cup {x \in {TRUE} : upsetsLeft > 0} :
       /\ faults' = IF fail THEN faults + 1 ELSE faults
       /\ upsetsLeft' = IF fail THEN upsetsLeft - 1 ELSE upsetsLeft
       /\ IF orphan.cands = <<>>
          THEN /\ NextPhase(orphan, orphan.phase) \notin {"purgeAlbums", "purgeArtists", "sum"}
               /\ IF fail
                  THEN /\ OrphanReturns(0, ErrStore)
                       /\ UNCHANGED << db, orphan >>
                  ELSE /\ orphan' = [orphan EXCEPT
                                        !.phase = NextPhase(orphan, @),
                                        !.cands = Query(db, orphan, NextPhase(orphan, orphan.phase))]
                       /\ UNCHANGED << db, pc, ret >>
          ELSE LET r == Head(orphan.cands)
               IN  IF ~Doomed(fs, orphan.phase, r)
                   THEN /\ ~fail
                        /\ orphan' = [orphan EXCEPT !.cands = Tail(@)]
                        /\ UNCHANGED << db, pc, ret >>
                   ELSE IF fail
                   THEN /\ OrphanReturns(0, ErrStore)
                        /\ UNCHANGED << db, orphan >>
                   ELSE /\ db' = DeleteRow(db, TableOf(orphan.phase), r)
                        /\ orphan' = [orphan EXCEPT !.cands = Tail(@),
                                                    ![CounterOf(orphan.phase)] = @ + 1]
                        /\ UNCHANGED << pc, ret >>
    /\ UNCHANGED << scanners, fs, mediaVars, haltVars, pre, delta, scansLeft, editsLeft >>

\* lines 500-505: PurgeOrphanAlbums
PurgeAlbums ==
    /\ pc = "orphan"
    /\ orphan.cands = <<>>
    /\ NextPhase(orphan, orphan.phase) = "purgeAlbums"
    /\ \/ /\ db' = [db EXCEPT !.albums = @ \ OrphanAlbums(db)]
          /\ orphan' = [orphan EXCEPT !.phase = "purgeAlbums",
                                      !.albumCount = Cardinality(OrphanAlbums(db))]
          /\ UNCHANGED << pc, ret, faults, upsetsLeft >>
       \/ /\ upsetsLeft > 0
          /\ faults' = faults + 1
          /\ upsetsLeft' = upsetsLeft - 1
          /\ OrphanReturns(0, ErrStore)
          /\ UNCHANGED << db, orphan >>
    /\ UNCHANGED << scanners, fs, mediaVars, haltVars, pre, delta, scansLeft, editsLeft >>

\* lines 507-524: PurgeOrphanArtists, and the sum of the counters is returned
PurgeArtists ==
    /\ pc = "orphan"
    /\ orphan.phase = "purgeAlbums"
    /\ \/ /\ db' = [db EXCEPT !.artists = @ \ OrphanArtists(db)]
          /\ orphan' = [orphan EXCEPT !.phase = "sum"]
          /\ OrphanReturns(orphan.artCount + Cardinality(OrphanArtists(db)) + orphan.albumCount
                             + orphan.songCount + orphan.folderCount, NoErr)
          /\ UNCHANGED << faults, upsetsLeft >>
       \/ /\ upsetsLeft > 0
          /\ faults' = faults + 1
          /\ upsetsLeft' = upsetsLeft - 1
          /\ OrphanReturns(0, ErrStore)
          /\ UNCHANGED << db, orphan >>
    /\ UNCHANGED << scanners, fs, mediaVars, haltVars, pre, delta, scansLeft, editsLeft >>

(***************************************************************************)
(* The cancel listener goroutines (lines 35-43 and 344-352).               *)
(***************************************************************************)
\* lines 37 and 346: the caller's send on the cancel channel is received
Cancel ==
    /\ pc \in {"walk", "assoc", "orphan"}
    /\ listener = "waiting"
    /\ upsetsLeft > 0
    /\ upsetsLeft' = upsetsLeft - 1
    /\ listener' = "received"
    /\ UNCHANGED << scanners, fs, db, pc, mediaVars, haltWalk, haltOrphanScan, rlocks,
                    visitsAfterCancel, orphan, ret, pre, delta, faults, scansLeft, editsLeft >>

\* lines 40-42: MediaScan's flag is set under the write lock; the goroutine
\* outlives a call that returned before it got there
ListenerHalt ==
    /\ \/ pc \in {"walk", "assoc"}
       \/ pc \in {"idle", "returned"} /\ ret.op = "media"
    /\ listener = "received"
    /\ rlocks = 0
    /\ listener' = "done"
    /\ haltWalk' = TRUE
    /\ UNCHANGED << scanners, fs, db, pc, mediaVars, haltOrphanScan, rlocks, visitsAfterCancel, orphan,
                    ret, pre, delta, faults, upsetsLeft, scansLeft, editsLeft >>

\* lines 349-351: OrphanScan's flag is set under the write lock, the call
\* running or returned
OrphanListenerHalt ==
    /\ \/ pc = "orphan"
       \/ pc \in {"idle", "returned"} /\ ret.op = "orphan"
    /\ listener = "received"
    /\ listener' = "done"
    /\ haltOrphanScan' = TRUE
    /\ UNCHANGED << scanners, fs, db, pc, mediaVars, haltWalk, rlocks, visitsAfterCancel, orphan, ret,
                    pre, delta, faults, upsetsLeft, scansLeft, editsLeft >>



(***************************************************************************)
(* The filesystem changes between scans.                                   *)
(***************************************************************************)
\* a file is created or rewritten (it is then not empty and readable by taglib)
WriteFile ==
    /\ pc \in {"idle", "returned"}
    /\ ret.op # "none" /\ scansLeft > 0
    /\ editsLeft > 0
    /\ \E p \in FilePaths, mt \in 0..MaxTime :
          /\ fs[Dir(p)].kind = "dir"
          /\ fs[p] # FileInfo(1, mt, Ext(p) \in mediaSet)
          /\ fs' = [fs EXCEPT ![p] = FileInfo(1, mt, Ext(p) \in mediaSet)]
          /\ delta' = IF delta = Unknown THEN Unknown
                      ELSE Append(delta, [kind |-> "write", path |-> p])
    /\ editsLeft' = editsLeft - 1
    /\ pc' = "idle"
    /\ UNCHANGED << scanners, db, mediaVars, haltVars, orphan, ret, pre, faults, upsetsLeft, scansLeft >>

\* a file or a whole directory is removed
RemoveAll ==
    /\ pc \in {"idle", "returned"}
    /\ ret.op # "none" /\ scansLeft > 0
    /\ editsLeft > 0
    /\ \E p \in Universe :
          /\ fs[p] # NoFile
          /\ fs' = [q \in Universe |-> IF IsPrefix(p, q) THEN NoFile ELSE fs[q]]
          /\ delta' = IF delta = Unknown THEN Unknown
                      ELSE Append(delta, [kind |-> "remove", path |-> p])
    /\ editsLeft' = editsLeft - 1
    /\ pc' = "idle"
    /\ UNCHANGED << scanners, db, mediaVars, haltVars, orphan, ret, pre, faults, upsetsLeft, scansLeft >>

Next ==
    \/ StartMediaScan
    \/ WalkStep
    \/ WalkEnter
    \/ WalkLoad
    \/ WalkSave
    \/ WalkEnd
    \/ AssocLoad
    \/ AssocUpdate
    \/ MediaScanDone
    \/ StartOrphanScan
    \/ OrphanLoop
    \/ PurgeAlbums
    \/ PurgeArtists
    \/ Cancel
    \/ ListenerHalt
    \/ OrphanListenerHalt
    \/ WriteFile
    \/ RemoveAll

Spec == Init /\ [][Next]_vars

\* the tree with every file whole, and one more upset allowed
FullTree ==
    [p \in Universe |-> IF p \in DirPaths
                        THEN (IF p = <<"m", "a", "f">> THEN NoFile ELSE DirInfo)
                        ELSE FileInfo(1, 1, Ext(p) \in mediaSet)]

InitTwoUpsets ==
    /\ fs = FullTree
    /\ db = EmptyDB
    /\ pc = "idle"
    /\ todo = <<>>
    /\ folderCache = EmptyMap
    /\ artistCache = EmptyMap
    /\ albumCache = EmptyMap
    /\ artFiles = <<>>
    /\ cnt = ZeroCounts
    /\ visit = NoVisit
    /\ listener = "waiting"
    /\ haltWalk = FALSE
    /\ rlocks = 0
    /\ visitsAfterCancel = 0
    /\ orphan = NoOrphan
    /\ haltOrphanScan = FALSE
    /\ ret = [op |-> "none", count |-> 0, err |-> NoErr]
    /\ pre = [db |-> EmptyDB, delta |-> Unknown, faults |-> 0, last |-> NoCall]
    /\ delta = Unknown
    /\ faults = 0
    /\ upsetsLeft = MaxUpsets + 1
    /\ scansLeft = MaxScans
    /\ editsLeft = MaxEdits
    /\ scanners = [i \in Scanners |-> IdleScanner]

SpecTwoUpsets == InitTwoUpsets /\ [][Next]_vars

(***************************************************************************)
(* Two MediaScan calls on the same root running side by side, each with    *)
(* its own caches and counters, interleaved between the store calls that   *)
(* MediaScan makes.  No store call fails and no cancel is sent here.       *)
(***************************************************************************)
\* the state of the one-call-at-a-time specification
soloVars ==
    << pc, mediaVars, haltVars, orphan, ret, pre, delta, faults, upsetsLeft, scansLeft,
       editsLeft >>

\* lines 31-70: one of the calls begins
BeginScan ==
    \E i \in Scanners :
       /\ scanners[i].pc = "idle"
       /\ scanners' =
             [scanners EXCEPT ![i] =
                 [Begun(fs) EXCEPT
                     !.alone = \A j \in Scanners \ {i} :
                                  scanners[j].pc \in {"idle", "returned"}]]
       /\ UNCHANGED << fs, db, soloVars >>

\* lines 70-96: filepath.Walk calls walkFunc on the next entry of one call
EnterStep ==
    \E i \in Scanners :
       /\ scanners[i].pc = "walk" /\ scanners[i].at = "enter"
       /\ scanners[i].todo # <<>>
       /\ scanners' = [scanners EXCEPT ![i] = EnterVisit(@, fs)]
       /\ UNCHANGED << fs, db, soloVars >>

\* one Load of one call
LoadStep ==
    \E i \in Scanners :
       /\ scanners[i].pc = "walk" /\ scanners[i].at \in LoadPoints
       /\ scanners' = [scanners EXCEPT ![i] = Loaded(@, db, fs, FALSE)]
       /\ UNCHANGED << fs, db, soloVars >>

\* one Save or Update of one call
SaveStep ==
    \E i \in Scanners :
       /\ scanners[i].pc = "walk" /\ scanners[i].at \in SavePoints
       /\ LET r == Saved(scanners[i], db, fs, FALSE)
          IN  /\ db' = r.db
              /\ scanners' = [scanners EXCEPT ![i] = r.s]
       /\ UNCHANGED << fs, soloVars >>

\* lines 302-305: the walk of one call ended without an error
EndWalk ==
    \E i \in Scanners :
       /\ scanners[i].pc = "walk" /\ scanners[i].at = "enter"
       /\ scanners[i].todo = <<>>
       /\ scanners' = [scanners EXCEPT ![i].pc = "assoc"]
       /\ UNCHANGED << fs, db, soloVars >>

\* lines 308-313: SongsForFolder for the next pair of one call
PairLoad ==
    \E i \in Scanners :
       /\ scanners[i].pc = "assoc" /\ scanners[i].at = "enter"
       /\ scanners[i].artFiles # <<>>
       /\ scanners' = [scanners EXCEPT ![i] = PairLoaded(@, db, FALSE)]
       /\ UNCHANGED << fs, db, soloVars >>

\* lines 316-320: the Update of the next song of the pair of one call
PairUpdate ==
    \E i \in Scanners :
       /\ scanners[i].pc = "assoc" /\ scanners[i].at = "s.Update"
       /\ LET r == SongUpdated(scanners[i], db, FALSE)
          IN  /\ db' = r.db
              /\ scanners' = [scanners EXCEPT ![i] = r.s]
       /\ UNCHANGED << fs, soloVars >>

\* lines 332-336: one call returns
ScanReturns ==
    \E i \in Scanners :
       /\ scanners[i].pc = "assoc" /\ scanners[i].at = "enter"
       /\ scanners[i].artFiles = <<>>
       /\ scanners' = [scanners EXCEPT ![i].pc = "returned"]
       /\ UNCHANGED << fs, db, soloVars >>

NextTwoScans ==
    \/ BeginScan
    \/ EnterStep
    \/ LoadStep
    \/ SaveStep
    \/ EndWalk
    \/ PairLoad
    \/ PairUpdate
    \/ ScanReturns

\* the trees of at most MaxEntries entries, nothing stored, neither call begun
InitTwoScans ==
    /\ Init
    /\ Cardinality({p \in Universe : fs[p] # NoFile}) <= MaxEntries

SpecTwoScans == InitTwoScans /\ [][NextTwoScans]_vars

(***************************************************************************)
(* Properties of MediaScan and OrphanScan.                                 *)
(***************************************************************************)
\* MediaScan has returned without an error
MediaOK == pc = "returned" /\ ret.op = "media" /\ ret.err = NoErr

\* the rows of a table that the scan now returned has created
Created(table) == {r \in db[table] : r.ID > pre.db.lastID[table]}

\* C1: a MediaScan of a tree that has not changed since a MediaScan returned
\* without error (and during which no store call fails) returns (0, nil) and
\* creates no Folder, Art, Artist, Album or Song
C1_RescanCountsNothing ==
    (MediaOK /\ pre.delta = <<>> /\ faults = pre.faults)
        => (ret.count = 0 /\ db.lastID = pre.db.lastID)

\* C2: when a MediaScan that returns without error has indexed a song and an
\* art file of the same folder, the song's art reference is the art's ID
C2_SongCarriesArtOfItsFolder ==
    MediaOK => \A s \in Created("songs"), a \in Created("art") :
                  (Dir(s.FileName) = Dir(a.FileName)) => (s.ArtID = a.ID)

\* C3: after MediaScans that each returned without error (and no failed store
\* call), with files written in between, every indexed song whose folder has
\* indexed art carries the ID of an Art record of that folder
C3_ArtIsFolderScoped ==
    (MediaOK /\ pre.delta # Unknown /\ faults = 0)
        => \A s \in db.songs :
              (\E a \in db.art : Dir(a.FileName) = Dir(s.FileName))
                  => (\E a \in db.art : Dir(a.FileName) = Dir(s.FileName) /\ s.ArtID = a.ID)

\* the one indexed song whose file was rewritten since the last MediaScan
\* returned without error, nothing else having changed
Rewritten ==
    {old \in pre.db.songs : pre.delta = << [kind |-> "write", path |-> old.FileName] >>}

\* C4: a MediaScan after exactly one indexed song's file was rewritten returns
\* 1 and keeps the Song's ID when the file's modified time is newer than the
\* stored one, and returns 0 and leaves the store as it was otherwise
C4_NewerFileIsOneUpdate ==
    (MediaOK /\ faults = pre.faults)
        => \A old \in Rewritten :
              IF fs[old.FileName].mtime > old.LastModified
              THEN /\ ret.count = 1
                   /\ \E s \in db.songs : /\ s.ID = old.ID
                                          /\ s.FileName = old.FileName
                                          /\ s.LastModified = fs[old.FileName].mtime
                   /\ db.lastID = pre.db.lastID
              ELSE ret.count = 0 /\ db = pre.db

\* the visited entry is a file of size zero
VisitsEmptyFile ==
    /\ pc = "walk" /\ todo # <<>>
    /\ fs[Head(todo)].kind = "file" /\ fs[Head(todo)].size = 0

\* C5: every Song and Art record has a file size above zero, and the visit of
\* a file of size zero creates no Song, Art, Artist or Album
C5_EmptyFilesAreNotIndexed ==
    [][ /\ \A r \in db'.songs \cup db'.art : r.FileSize > 0
        /\ VisitsEmptyFile => /\ db'.songs = db.songs /\ db'.art = db.art
                              /\ db'.artists = db.artists /\ db'.albums = db.albums ]_vars

\* a scan walked files of size zero (audio and art), indexed others, and
\* returned without error
C5_Witness ==
    /\ MediaOK /\ db.songs # {} /\ db.art # {}
    /\ \E p, q \in FilePaths :
          /\ Ext(p) \in mediaSet /\ fs[p] = FileInfo(0, 1, TRUE)
          /\ Ext(q) \in artSet /\ fs[q] = FileInfo(0, 1, FALSE)
          /\ \A r \in db.songs \cup db.art : r.FileName \notin {p, q}

\* the files at or below directory p
FilesBelow(f, p) == {q \in FilePaths : IsPrefix(p, q) /\ f[q] # NoFile}

\* C6 as stated: MediaScan creates no Folder record for a directory that
\* holds no file at any depth
C6_NoFolderWithoutFiles ==
    MediaOK => \A fo \in Created("folders") : FilesBelow(fs, fo.Path) # {}

\* C6 as amended: MediaScan creates no Folder record for a directory whose
\* own listing is empty
C6_NoFolderForEmptyListing ==
    MediaOK => \A fo \in Created("folders") : ReadDir(fs, fo.Path) # {}

\* a scan walked the empty directory f, made no Folder for it, and made one
\* for the directory that holds it
C6_Witness ==
    /\ MediaOK
    /\ fs[<<"m", "a", "f">>] = DirInfo
    /\ \A fo \in db.folders : fo.Path # <<"m", "a", "f">>
    /\ \E fo \in Created("folders") : fo.Path = <<"m", "a">>

\* C7 as stated: once the cancel signal is received, at most one more entry is
\* visited by the walk
C7_HaltsWithinOneStep == visitsAfterCancel <= 1

\* C7 as amended: once the listener has set haltWalk, the next call of
\* walkFunc visits nothing and MediaScan returns (0, halted)
C7_HaltsOnceFlagIsSet ==
    [][ (pc = "walk" /\ visit.at = "enter" /\ todo # <<>> /\ haltWalk)
            => (db' = db /\ cnt' = cnt /\ pc' = "returned"
                /\ ret' = [op |-> "media", count |-> 0, err |-> ErrHalted]) ]_vars

\* a scan was halted after it had created records, which remain
C7_Witness ==
    /\ pc = "returned" /\ ret.op = "media" /\ ret.err = ErrHalted
    /\ haltWalk /\ todo # <<>>
    /\ db.lastID # pre.db.lastID

\* C8: once haltOrphanScan is set, the next step of OrphanScan deletes nothing
\* and returns an error
C8_OrphanScanHalts ==
    [][ (pc = "orphan" /\ haltOrphanScan)
            => (db' = db /\ pc' = "returned" /\ ret'.err # NoErr) ]_vars

\* C9: a MediaScan during which a store call failed (with an error other than
\* not-found) does not return without an error
C9_StoreErrorAborts ==
    (pc = "returned" /\ ret.op = "media" /\ faults > pre.faults) => ret.err # NoErr

\* C10: a scan returns a count with no error, or zero with an error
C10_CountOrError ==
    (pc = "returned") => (ret.err = NoErr \/ ret.count = 0)

\* a scan failed after it had changed the store
C10_Witness ==
    /\ pc = "returned" /\ ret.err # NoErr /\ ret.count = 0
    /\ db # pre.db

\* OrphanScan has returned without an error
OrphanOK == pc = "returned" /\ ret.op = "orphan" /\ ret.err = NoErr

\* OrphanScan was called with a base path and no sub path
BaseOnly == orphan.baseFolder # <<>> /\ orphan.subFolder = <<>>

\* the rows of d that OrphanScan leaves which were called on base b and sub
\* path sub: the art, songs and folders under b whose file is there (or is
\* not under sub), the albums that keep a song, the artists that keep an album
KeptArt(d, b, sub) ==
    {a \in d.art : IsPrefix(b, a.FileName)
                     /\ (IsPrefix(sub, a.FileName) => fs[a.FileName] # NoFile)}
KeptSongs(d, b, sub) ==
    {x \in d.songs : IsPrefix(b, x.FileName)
                       /\ (IsPrefix(sub, x.FileName) => fs[x.FileName] # NoFile)}
KeptFolders(d, b, sub) ==
    {x \in d.folders : IsPrefix(b, x.Path)
                         /\ (IsPrefix(sub, x.Path) => ReadDir(fs, x.Path) # {})}
KeptAlbums(d, b, sub) ==
    {a \in d.albums : \E x \in KeptSongs(d, b, sub) : x.AlbumID = a.ID}
KeptArtists(d, b, sub) ==
    {a \in d.artists : \E x \in KeptAlbums(d, b, sub) : x.ArtistID = a.ID}

\* C11 as stated: OrphanScan with a base path alone removes the art, songs and
\* folders that are not under the base path and nothing else
C11_BaseEvictsOnlyOutside ==
    (OrphanOK /\ BaseOnly)
        => /\ db.art = ArtInPath(pre.db, orphan.baseFolder)
           /\ db.songs = SongsInPath(pre.db, orphan.baseFolder)
           /\ db.folders = FoldersInPath(pre.db, orphan.baseFolder)
           /\ db.albums = pre.db.albums /\ db.artists = pre.db.artists

\* C11 as amended: OrphanScan with a base path alone removes the art, songs
\* and folders that are not under the base path whether or not their file
\* exists; under the base path it removes those whose file is gone (folders:
\* whose directory is gone or lists nothing); and it removes the albums left
\* with no song and the artists left with no album, and nothing else
C11_BaseEvictsOutsideAndOrphans ==
    (OrphanOK /\ BaseOnly)
        => LET b == orphan.baseFolder
           IN  /\ db.art = KeptArt(pre.db, b, b)
               /\ db.songs = KeptSongs(pre.db, b, b)
               /\ db.folders = KeptFolders(pre.db, b, b)
               /\ db.albums = KeptAlbums(pre.db, b, b)
               /\ db.artists = KeptArtists(pre.db, b, b)

\* OrphanScan of base m/a evicted a song outside it whose file exists, kept a
\* song under it, and removed a song under it whose file was gone
C11_Witness ==
    /\ OrphanOK /\ BaseOnly /\ orphan.baseFolder = <<"m", "a">>
    /\ \E x \in pre.db.songs \ db.songs :
          ~IsPrefix(orphan.baseFolder, x.FileName) /\ fs[x.FileName] # NoFile
    /\ \E x \in pre.db.art \ db.art :
          IsPrefix(orphan.baseFolder, x.FileName) /\ fs[x.FileName] = NoFile
    /\ db.songs # {}

\* every file and directory of the subtree OrphanScan verifies is gone
SubtreeGone == \A q \in Universe : IsPrefix(SubFolder(orphan), q) => fs[q] = NoFile

\* the number of rows of d that are no longer in the store
Removed(d) ==
    Cardinality(d.art \ db.art) + Cardinality(d.songs \ db.songs)
      + Cardinality(d.folders \ db.folders) + Cardinality(d.albums \ db.albums)
      + Cardinality(d.artists \ db.artists)

\* C12: an OrphanScan over a subtree that is gone from disk leaves no Art, Song
\* or Folder record of the subtree, no Album without a Song and no Artist
\* without an Album, and returns the number of records it removed
C12_GoneSubtreeIsPurged ==
    (OrphanOK /\ SubtreeGone)
        => /\ ArtInPath(db, SubFolder(orphan)) = {}
           /\ SongsInPath(db, SubFolder(orphan)) = {}
           /\ FoldersInPath(db, SubFolder(orphan)) = {}
           /\ OrphanAlbums(db) = {} /\ OrphanArtists(db) = {}
           /\ db.art \subseteq pre.db.art /\ db.songs \subseteq pre.db.songs
           /\ db.folders \subseteq pre.db.folders /\ db.albums \subseteq pre.db.albums
           /\ db.artists \subseteq pre.db.artists
           /\ ret.count = Removed(pre.db)

\* the directory m/a was removed and an OrphanScan of m/a removed its song,
\* art and folder and the album left without a song, while other songs remain
C12_Witness ==
    /\ OrphanOK /\ SubtreeGone /\ SubFolder(orphan) = <<"m", "a">>
    /\ SongsInPath(pre.db, <<"m", "a">>) # {} /\ ArtInPath(pre.db, <<"m", "a">>) # {}
    /\ FoldersInPath(pre.db, <<"m", "a">>) # {}
    /\ pre.db.albums # db.albums
    /\ db.songs # {}
    /\ ret.count >= 4

\* the songs that were in the store before the scan and now carry a newer
\* modified time
Updated ==
    {s \in db.songs : \E old \in pre.db.songs : old.ID = s.ID /\ old.LastModified < s.LastModified}

\* C13: the count a MediaScan returns without error is the number of Art,
\* Artist, Album, Song and Folder records it created plus the number of songs
\* it updated for a newer modified time
C13_CountIsCreatedPlusUpdated ==
    MediaOK => ret.count = Cardinality(Created("art")) + Cardinality(Created("artists"))
                             + Cardinality(Created("albums")) + Cardinality(Created("songs"))
                             + Cardinality(Created("folders")) + Cardinality(Updated)

\* the IDs of a set of rows
IDs(rows) == {r.ID : r \in rows}

\* C14: no step of MediaScan deletes a record or changes a Folder, Art, Artist
\* or Album record, and the step that ends the call with the halted error
\* leaves the store as the completed walk steps left it
C14_HaltKeepsProgress ==
    [][ (pc \in {"walk", "assoc"})
            => /\ db.folders \subseteq db'.folders /\ db.art \subseteq db'.art
               /\ db.artists \subseteq db'.artists /\ db.albums \subseteq db'.albums
               /\ IDs(db.songs) \subseteq IDs(db'.songs)
               /\ (pc' = "returned" /\ ret'.err = ErrHalted) => db' = db ]_vars

\* a scan was halted after it had saved a folder and a song, which are in the
\* store after the return
C14_Witness ==
    /\ pc = "returned" /\ ret.op = "media" /\ ret.err = ErrHalted
    /\ Created("folders") # {} /\ Created("songs") # {}
    /\ todo # <<>>

\* C15: a walk step that begins with haltWalk set makes no store call, visits
\* nothing (the entry stays unvisited, caches and counters are untouched), and
\* ends the call with an error without the deferred art pass having run
C15_HaltCheckComesFirst ==
    [][ (pc = "walk" /\ visit.at = "enter" /\ todo # <<>> /\ haltWalk)
            => /\ UNCHANGED << db, fs, todo, folderCache, artistCache, albumCache, artFiles,
                               cnt, visit, faults >>
               /\ pc' = "returned" /\ ret'.op = "media" /\ ret'.err # NoErr ]_vars

\* a scan was halted with an art pair recorded and entries left to visit: the
\* deferred pass did not run and the folder's song has no art reference
C15_Witness ==
    /\ pc = "returned" /\ ret.op = "media" /\ ret.err = ErrHalted
    /\ artFiles # <<>> /\ todo # <<>>
    /\ \E s \in Created("songs"), a \in Created("art") :
          Dir(s.FileName) = Dir(a.FileName) /\ s.ArtID = 0

\* C16: a Folder that MediaScan saves for a directory other than the scan root
\* has its parent directory's Folder in the store at that moment and carries
\* its ID; parent ID 0 is given only when the parent directory is not indexed
C16_ParentFolderFirst ==
    [][ \A fo \in db'.folders :
          (fo.ID \notin IDs(db.folders))
             => /\ (fo.Path # Root)
                     => \E pa \in db.folders : pa.Path = Dir(fo.Path) /\ fo.ParentID = pa.ID
                /\ (fo.ParentID = 0)
                     => ~\E pa \in db.folders : pa.Path = Dir(fo.Path) ]_vars

\* C17: the store never holds two Folder records of one path, two Song or two
\* Art records of one file, two Artist records of one title, or two Album
\* records of one (artist ID, title) pair
C17_IdentityIsUnique ==
    /\ \A x, y \in db.folders : (x.Path = y.Path) => (x = y)
    /\ \A x, y \in db.songs : (x.FileName = y.FileName) => (x = y)
    /\ \A x, y \in db.art : (x.FileName = y.FileName) => (x = y)
    /\ \A x, y \in db.artists : (x.Title = y.Title) => (x = y)
    /\ \A x, y \in db.albums : (x.ArtistID = y.ArtistID /\ x.Title = y.Title) => (x = y)

\* a second MediaScan of a tree with two songs of one artist on two albums,
\* two art files and two folders found every record and created none
C17_Witness ==
    /\ MediaOK /\ pre.db = db /\ ret.count = 0
    /\ Cardinality(db.songs) = 2 /\ Cardinality(db.artists) = 1
    /\ Cardinality(db.albums) = 2 /\ Cardinality(db.art) = 2
    /\ Cardinality(db.folders) = 2

\* C18: in OrphanScan a Song or Folder is deleted only while no Album and no
\* Artist has been removed by the call; the step that purges the albums
\* deletes nothing else and no Song, Folder or Album is deleted after it; and
\* the artists are purged only after the albums were, when no Album without a
\* Song is left
C18_PurgeOrder ==
    [][ (pc = "orphan")
            => /\ (db'.songs # db.songs \/ db'.folders # db.folders)
                     => /\ db.albums = pre.db.albums /\ db.artists = pre.db.artists
                        /\ db'.albums = db.albums /\ db'.artists = db.artists
                        /\ orphan.phase \notin {"purgeAlbums", "sum"}
               /\ (db'.albums # db.albums)
                     => /\ db.artists = pre.db.artists /\ db'.artists = db.artists
                        /\ orphan'.phase = "purgeAlbums"
               /\ (orphan.phase = "purgeAlbums")
                     => /\ db'.songs = db.songs /\ db'.folders = db.folders
                        /\ db'.albums = db.albums /\ db'.art = db.art
               /\ (db'.artists # db.artists)
                     => orphan.phase = "purgeAlbums" /\ OrphanAlbums(db) = {} ]_vars

\* an OrphanScan deleted a song and a folder, then purged an album, then an
\* artist
C18_Witness ==
    /\ OrphanOK
    /\ pre.db.songs # db.songs /\ pre.db.folders # db.folders
    /\ pre.db.albums # db.albums /\ pre.db.artists # db.artists

\* every song of d names an album and an artist of d, and every album of d
\* names an artist of d
TagRefsExist(d) ==
    /\ \A s \in d.songs : /\ s.AlbumID \in IDs(d.albums)
                          /\ s.ArtistID \in IDs(d.artists)
    /\ \A a \in d.albums : a.ArtistID \in IDs(d.artists)

\* C19: after an OrphanScan that returns without error, run on the store a
\* successful MediaScan left, the album and the artist that a remaining Song
\* named and the artist that a remaining Album named before the call still
\* exist
C19_NoDanglingAlbumOrArtist ==
    (OrphanOK /\ pre.delta # Unknown)
        => /\ \A s \in db.songs :
                 /\ (s.AlbumID \in IDs(pre.db.albums)) => (s.AlbumID \in IDs(db.albums))
                 /\ (s.ArtistID \in IDs(pre.db.artists)) => (s.ArtistID \in IDs(db.artists))
           /\ \A a \in db.albums :
                 (a.ArtistID \in IDs(pre.db.artists)) => (a.ArtistID \in IDs(db.artists))

\* C20: after an OrphanScan that returns without error, run on the store a
\* successful MediaScan left (no store call having failed), no remaining Song
\* carries the ID of an Art record that the scan deleted, and no remaining
\* Folder carries as parent ID the ID of a Folder that the scan deleted
C20_NoDanglingArtOrParent ==
    (OrphanOK /\ pre.delta # Unknown /\ faults = 0)
        => /\ \A s \in db.songs :
                 (s.ArtID # 0) => (s.ArtID \notin IDs(pre.db.art) \ IDs(db.art))
           /\ \A x \in db.folders :
                 x.ParentID \notin IDs(pre.db.folders) \ IDs(db.folders)

\* C21: a song that a MediaScan updates in place for a newer modified time (no
\* store call having failed) keeps the art reference it had, when the scan
\* leaves the Art records as they were
C21_UpdateKeepsArt ==
    (MediaOK /\ faults = 0 /\ db.art = pre.db.art)
        => \A s \in Updated : \A old \in pre.db.songs :
              (old.ID = s.ID) => (s.FileName = old.FileName /\ s.ArtID = old.ArtID)

\* a MediaScan call with locals s run on from store d to its return, no store
\* call failing and nothing else running in between: its locals and the store
\* at the return
RECURSIVE RunScan(_, _, _)
RunScan(s, d, f) ==
    IF s.pc = "walk"
    THEN IF s.at = "enter"
         THEN IF s.todo = <<>> THEN RunScan([s EXCEPT !.pc = "assoc"], d, f)
              ELSE RunScan(EnterVisit(s, f), d, f)
         ELSE IF s.at \in LoadPoints THEN RunScan(Loaded(s, d, f, FALSE), d, f)
         ELSE LET r == Saved(s, d, f, FALSE) IN RunScan(r.s, r.db, f)
    ELSE IF s.pc = "assoc"
    THEN IF s.at = "enter"
         THEN IF s.artFiles = <<>> THEN [s |-> [s EXCEPT !.pc = "returned"], db |-> d]
              ELSE RunScan(PairLoaded(s, d, FALSE), d, f)
         ELSE LET r == SongUpdated(s, d, FALSE) IN RunScan(r.s, r.db, f)
    ELSE [s |-> s, db |-> d]

\* the store one MediaScan of tree f that nothing interrupts leaves when it
\* starts from store d
Uninterrupted(d, f) == RunScan(Begun(f), d, f).db

\* the call that returned is the retry of a MediaScan that was halted, the
\* tree having been left alone in between and no store call having failed
RetryAfterHalt ==
    /\ MediaOK /\ faults = 0
    /\ pre.last.ret.op = "media" /\ pre.last.ret.err = ErrHalted
    /\ pre.last.pc = "returned"

\* C22: a halted MediaScan followed by a complete MediaScan of the same tree
\* leaves the store that one uninterrupted MediaScan from the same starting
\* store leaves: the same records with the same art references
C22_RetryConverges ==
    RetryAfterHalt => db = Uninterrupted(pre.last.db, fs)

\* an OrphanScan is running or was the call that returned last (the tree is
\* then the tree it saw)
InOrphan == pc = "orphan" \/ (pc = "returned" /\ ret.op = "orphan")

\* the art, songs and folders of the store before the scan that are under the
\* base path and not under the verified subtree
Untouched(table) ==
    {r \in pre.db[table] :
        LET p == IF table = "folders" THEN r.Path ELSE r.FileName
        IN  IsPrefix(orphan.baseFolder, p) /\ ~IsPrefix(SubFolder(orphan), p)}

\* C23 as stated: OrphanScan never deletes a Song or Art under the base path
\* (any path when none is given) whose file exists, never deletes a Folder
\* whose directory lists an entry, and leaves every record under the base path
\* and outside the verified subtree as it was
C23_DeletesOnlyMissing ==
    InOrphan
        => /\ \A a \in pre.db.art :
                (IsPrefix(orphan.baseFolder, a.FileName) /\ fs[a.FileName] # NoFile)
                    => a \in db.art
           /\ \A x \in pre.db.songs :
                (IsPrefix(orphan.baseFolder, x.FileName) /\ fs[x.FileName] # NoFile)
                    => x \in db.songs
           /\ \A x \in pre.db.folders : (ReadDir(fs, x.Path) # {}) => x \in db.folders
           /\ \A t \in {"art", "songs", "folders"} : Untouched(t) \subseteq db[t]

\* C23 as amended: OrphanScan never deletes a Song or Art under the base path
\* (any path when none is given) whose file exists, never deletes a Folder
\* under the base path (any path when none is given) whose directory lists an
\* entry, and leaves every record under the base path and outside the verified
\* subtree as it was
C23_DeletesOnlyMissingUnderBase ==
    InOrphan
        => /\ \A a \in pre.db.art :
                (IsPrefix(orphan.baseFolder, a.FileName) /\ fs[a.FileName] # NoFile)
                    => a \in db.art
           /\ \A x \in pre.db.songs :
                (IsPrefix(orphan.baseFolder, x.FileName) /\ fs[x.FileName] # NoFile)
                    => x \in db.songs
           /\ \A x \in pre.db.folders :
                (IsPrefix(orphan.baseFolder, x.Path) /\ ReadDir(fs, x.Path) # {})
                    => x \in db.folders
           /\ \A t \in {"art", "songs", "folders"} : Untouched(t) \subseteq db[t]

\* OrphanScan of base m and sub path m/a removed a song under m/a whose file
\* was gone, kept the art under m/a whose file exists and the folder m/a that
\* still lists an entry, and left a song outside m/a alone
C23_Witness ==
    /\ OrphanOK /\ orphan.baseFolder = Root /\ orphan.subFolder = <<"m", "a">>
    /\ \E x \in pre.db.songs \ db.songs :
          IsPrefix(<<"m", "a">>, x.FileName) /\ fs[x.FileName] = NoFile
    /\ \E a \in db.art : IsPrefix(<<"m", "a">>, a.FileName) /\ fs[a.FileName] # NoFile
    /\ \E x \in db.folders : x.Path = <<"m", "a">> /\ ReadDir(fs, x.Path) # {}
    /\ Untouched("songs") # {}

\* the OrphanScan that is running or has returned was called on the root right
\* after a MediaScan that started from the empty store and returned without
\* error, the tree having been left alone in between
OrphanRightAfterMedia ==
    /\ InOrphan /\ orphan.baseFolder = Root
    /\ pre.last.ret.op = "media" /\ pre.last.ret.err = NoErr
    /\ pre.last.pc = "returned" /\ pre.last.db = EmptyDB

\* C24: an OrphanScan of the root run right after a MediaScan that started
\* from the empty store and returned without error, the tree unchanged in
\* between, deletes no Folder, Art, Song, Album or Artist and returns count 0
C24_OrphanAfterMediaDeletesNothing ==
    OrphanRightAfterMedia
        => /\ db = pre.db
           /\ (pc = "returned" /\ ret.err = NoErr) => ret.count = 0

\* C26: in MediaScan every read lock a traversal step takes is released before
\* the step returns, the step that observes the halt flag included: no read
\* lock is held between steps or after the call has returned
C26_ReadLockIsReleased ==
    rlocks = 0

\* what makes a record of a table the record of one thing: the path of a
\* Folder, the file of a Song or an Art, the title of an Artist, the artist ID
\* and title of an Album
Identity(table, r) ==
    CASE table = "folders" -> r.Path
      [] table \in {"art", "songs"} -> r.FileName
      [] table = "artists" -> r.Title
      [] OTHER -> <<r.ArtistID, r.Title>>

\* the table holds two records of one identity
Duplicated(table) ==
    \E x, y \in db[table] : x # y /\ Identity(table, x) = Identity(table, y)

\* neither call began while the other was running
Sequential == \A i \in Scanners : scanners[i].alone

\* C25: two MediaScan calls on the same root, each with its own caches, leave
\* two records of one identity only when they ran side by side: calls made one
\* after the other never do
C25_OnlyConcurrentScansDuplicate ==
    Sequential
        => \A t \in {"folders", "art", "artists", "albums", "songs"} : ~Duplicated(t)

\* the two calls ran side by side, both missed the loads and both saved: both
\* have returned without error and the store holds two Folders of one path, two
\* Art and two Songs of one file and two Artists of one title
C25_Witness ==
    /\ \A i \in Scanners : scanners[i].pc = "returned" /\ scanners[i].err = NoErr
    /\ ~Sequential
    /\ Duplicated("folders") /\ Duplicated("art")
    /\ Duplicated("songs") /\ Duplicated("artists")

=============================================================================
